---- MODULE Spec2Model ----
(***************************************************************************)
(* ConvertPro: the batch runners of the three progress screens (generic    *)
(* conversion, image compression, audio compression), the screens that     *)
(* submit a batch to them, and the persisted conversion history.           *)
(*                                                                         *)
(* One step of a runner is one continuation of its async function: the     *)
(* code that runs from the settling of one awaited promise to the next     *)
(* await.  User events (cancel, leaving the screen) and the audio          *)
(* runner's interval timer interleave between these continuations.         *)
(*                                                                         *)
(* Items are numbered 1..files in queue order; the code's loop index i is  *)
(* 0-based, so the loop at index i handles item i + 1.                     *)
(* A progress fraction a / b is kept as the pair <<a, b>>.                 *)
(* An output location is the number of the item it was produced for, and   *)
(* 0 stands for an absent (undefined) outputPath.                          *)
(***************************************************************************)
EXTENDS Integers, Sequences, FiniteSets, TLC

\* Largest batch submitted from the home screen.
MaxFiles == 3

\* Number of history-store operations explored by SpecHistory.
MaxOps == 3

\* Number of files of each of the two batches of SpecConcurrent.
BatchFiles == 2

\* Largest number of files the home screen holds in SpecValidate.
MaxPicked == 2

\* Number of compressAudio calls each of the two screens of SpecService makes.
MaxCalls == 2

\* Number of FFmpegService.cancelConversion calls explored by SpecCancel.
MaxCancels == 2

\* Number of items of the batch of SpecQuality.
QualityItems == 2

\* const MAX_HISTORY_ITEMS = 50
MAX_HISTORY_ITEMS == 50

VARIABLES
    screen,              \* navigation: "home", "settings", "progress", "left"
    operationType,       \* HomeScreen operationType: "format" | "compress"
    mediaType,           \* HomeScreen mediaType / conversionType
    selectedFiles,       \* HomeScreen selectedFiles.length
    files,               \* route.params.files.length of the settings/progress screen
    outputFormatSupported, \* whether getSupportedImageFormat accepts the chosen extension
    alertShown,          \* last Alert raised by a submitting screen: "none" | "noFiles"
    mounted,             \* the progress screen is mounted
    pc,                  \* the await at which the runner's async function is suspended
    i,                   \* loop index of the runner (0-based)
    currentFileIndex,    \* useState currentFileIndex
    isCancelledRef,      \* GenericConversionProgressScreen isCancelledRef.current
    env,                 \* fault the collaborators will raise for the item in flight
    conversionState,     \* generic runner: useState conversionState
    results,             \* generic runner: local array results
    processedFiles,      \* generic runner: useState processedFiles
    overallProgress,     \* generic runner: useState overallProgress
    currentStatusMessage, \* generic runner: useState currentStatusMessage (by kind of message)
    fileProgress,        \* compression runners: useState fileProgress
    isProcessing,        \* compression runners: useState isProcessing
    isCompleted,         \* compression runners: useState isCompleted
    totalProgress,       \* compression runners: useState totalProgress
    currentProgress,     \* audio runner: let currentProgress of the interval
    progressInterval,    \* audio runner: the interval is active
    history,             \* the list persisted under STORAGE_KEY, most recent first
    nextId,              \* source of fresh ids / timestamps (Date.now())
    storageFailed,       \* some storage read or write has failed so far
    started,             \* items whose processor has been invoked, in invocation order
    expected,            \* per item: would the processor succeed if never cancelled
    cancelAt,            \* item whose iteration was running when cancellation was first requested (0: none)
    cancelPc,            \* pc at that moment
    opCount,             \* SpecHistory: operations performed
    lastOp,              \* SpecHistory: the operation performed last
    lastId,              \* SpecHistory: the id the last removeConversion was called with
    lastReadOk,          \* SpecHistory: the last operation's read of the stored list succeeded
    lastWriteOk,         \* SpecHistory: the last operation's write (setItem / removeItem) succeeded
    progressCallback,    \* FFmpegService.progressCallback: the batch whose callback is set (0: null)
    currentSessionId,    \* FFmpegService.currentSessionId (0: null)
    batchPc,             \* SpecConcurrent: per batch, the await its loop is suspended at
    batchItem,           \* SpecConcurrent: per batch, the item being handled (1-based)
    batchLeft,           \* SpecConcurrent: per batch, its screen was left (isCancelledRef set by the cleanup)
    batchRead,           \* SpecConcurrent: per batch, the list getHistory returned to addConversion
    batchNew,            \* SpecConcurrent: per batch, the newItem addConversion has built
    delivered,           \* SpecConcurrent: per batch, the sessions whose statistics its callback received
    appended,            \* SpecConcurrent: inputFile of every addConversion call that has completed
    selectPc,            \* HomeScreen.handleSelectFile: "idle" | "validating"
    rawFiles,            \* handleSelectFile: the files the picker returned
    validateIndex,       \* validateFiles: number of files of the for...of loop already handled
    validFiles,          \* validateFiles: const validFiles
    invalidFiles,        \* validateFiles: const invalidFiles
    selectedList,        \* HomeScreen: useState selectedFiles (the list itself)
    prevSelected,        \* selectedList as it was when the picker returned
    selectAlert,         \* the Alert raised by handleSelectFile
    permissionDenied,    \* items whose media-library permission request was answered 'denied'
    savedToGallery,      \* items whose output MediaLibrary.createAssetAsync put into the gallery
    savedToAppDirectory, \* items whose output was written under FileSystem.documentDirectory
    instance,            \* AudioCompressionService.instance (0: undefined, else the object's number)
    instancesCreated,    \* number of AudioCompressionService objects constructed
    initialized,         \* AudioCompressionService.initialized
    callPc,              \* SpecService: per screen, the await its compressAudio call is suspended at
    callInstance,        \* SpecService: per screen, the object getInstance() returned last
    callCount,           \* SpecService: per screen, compressAudio calls made
    setLogLevelCalls,    \* number of FFmpegKitConfig.setLogLevel calls
    enableLogsCalls,     \* number of FFmpegKitConfig.enableLogs calls
    initFailed,          \* number of initializeFFmpeg runs that threw
    cancelCallPc,        \* FFmpegService.cancelConversion: "idle", or "cancel" while FFmpegKit.cancel is awaited
    cancelCalls,         \* number of cancelConversion calls made
    lastCancel,          \* the last cancelConversion call: the sessions in flight then, and the one passed to FFmpegKit.cancel
    qualityPc,           \* SpecQuality: "settings" | "progress"
    formatHasQuality,    \* settings screen: formatObj.quality of the selected image format
    selectedQuality,     \* settings screen: useState selectedQuality (Undefined: undefined)
    quality,             \* progress screen: route.params.quality
    qualityApplied       \* the qualitySetting processImageFile was called with, per item

vars == <<screen, operationType, mediaType, selectedFiles, files, outputFormatSupported,
          alertShown, mounted, pc, i, currentFileIndex, isCancelledRef, env,
          conversionState, results, processedFiles, overallProgress,
          currentStatusMessage,
          fileProgress, isProcessing, isCompleted, totalProgress,
          currentProgress, progressInterval,
          history, nextId, storageFailed,
          started, expected, cancelAt, cancelPc, opCount, lastOp,
          lastId, lastReadOk, lastWriteOk,
          progressCallback, currentSessionId, batchPc, batchItem, batchLeft,
          batchRead, batchNew, delivered, appended,
          selectPc, rawFiles, validateIndex, validFiles, invalidFiles, selectedList,
          prevSelected, selectAlert,
          permissionDenied, savedToGallery, savedToAppDirectory,
          instance, instancesCreated, initialized, callPc, callInstance, callCount,
          setLogLevelCalls, enableLogsCalls, initFailed,
          cancelCallPc, cancelCalls, lastCancel,
          qualityPc, formatHasQuality, selectedQuality, quality, qualityApplied>>

navVars == <<screen, operationType, mediaType, selectedFiles, files,
             outputFormatSupported, alertShown>>
genericVars == <<conversionState, results, processedFiles, overallProgress,
                 currentStatusMessage>>
compressVars == <<fileProgress, isProcessing, isCompleted, totalProgress,
                  currentProgress, progressInterval>>
storeVars == <<history, nextId, storageFailed>>
opVars == <<opCount, lastOp, lastId, lastReadOk, lastWriteOk>>
concurrentVars == <<progressCallback, currentSessionId, batchPc, batchItem, batchLeft,
                    batchRead, batchNew, delivered, appended>>
cancelVars == <<cancelAt, cancelPc>>
mediaVars == <<permissionDenied, savedToGallery, savedToAppDirectory>>
serviceVars == <<instance, instancesCreated, initialized, callPc, callInstance, callCount,
                 setLogLevelCalls, enableLogsCalls, initFailed>>
cancelCallVars == <<cancelCallPc, cancelCalls, lastCancel>>
qualityVars == <<qualityPc, formatHasQuality, selectedQuality, quality, qualityApplied>>
nonMediaVars == <<serviceVars, cancelCallVars, qualityVars>>
otherVars == <<mediaVars, nonMediaVars>>

Min(a, b) == IF a <= b THEN a ELSE b

(***************************************************************************)
(* Progress fractions                                                      *)
(***************************************************************************)
Fraction(a, b) == <<a, b>>
FractionLeq(p, q) == p[1] * q[2] <= q[1] * p[2]
FractionIsOne(p) == p[2] > 0 /\ p[1] = p[2]
Zero == Fraction(0, 1)

(***************************************************************************)
(* Conversion history (utils/conversionHistory)                            *)
(***************************************************************************)
\* history.slice(0, MAX_HISTORY_ITEMS) without the cap
TrimHistory_NoCap(h) == h

\* history.slice(0, MAX_HISTORY_ITEMS)
TrimHistory(h) == SubSeq(h, 1, Min(Len(h), MAX_HISTORY_ITEMS))

\* getHistory: a failed read (getItem returns null) or an absent key gives []
GetHistory(h, readOk) == IF readOk THEN h ELSE <<>>

\* addConversion: read, unshift, slice, write; every error is swallowed
AddConversion(h, newItem, readOk, writeOk) ==
    LET trimmedHistory == TrimHistory(<<newItem>> \o GetHistory(h, readOk))
    IN  IF writeOk THEN trimmedHistory ELSE h

\* removeConversion: read, filter by id, write; every error is swallowed
RemoveConversion(h, id, readOk, writeOk) ==
    LET filteredHistory == SelectSeq(GetHistory(h, readOk), LAMBDA item : item.id # id)
    IN  IF writeOk THEN filteredHistory ELSE h

\* clearHistory: removeItem; an error is swallowed
ClearHistory(h, writeOk) == IF writeOk THEN <<>> ELSE h

\* a storage error passed on to the caller of addConversion
AddConversionRejects_Propagated(readOk, writeOk) == ~readOk \/ ~writeOk

\* addConversion wraps its whole body in try / catch and only logs the error, so the
\* promise it returns is never rejected
AddConversionRejects(readOk, writeOk) == FALSE

\* the record built with success: true whatever the caller passed
NewItem_AlwaysSuccess(id, item, success, outputPath) ==
    [id |-> id, timestamp |-> id, inputFile |-> item,
     success |-> TRUE, outputPath |-> outputPath]

\* the record addConversion builds from its argument
NewItem(id, item, success, outputPath) ==
    [id |-> id, timestamp |-> id, inputFile |-> item,
     success |-> success, outputPath |-> outputPath]

(***************************************************************************)
(* Initial state: the home screen with some files selected                 *)
(***************************************************************************)
selectVars == <<selectPc, rawFiles, validateIndex, validFiles, invalidFiles, selectedList,
                prevSelected, selectAlert>>

\* HomeScreen before any file was picked
InitSelectVars ==
    /\ selectPc = "idle"
    /\ rawFiles = <<>>
    /\ validateIndex = 0
    /\ validFiles = <<>>
    /\ invalidFiles = <<>>
    /\ selectedList = <<>>
    /\ prevSelected = <<>>
    /\ selectAlert = "none"

\* the two progress screens of SpecConcurrent
Batches == {1, 2}

\* FFmpegService as constructed, and no progress screen mounted yet
InitConcurrentVars ==
    /\ progressCallback = 0
    /\ currentSessionId = 0
    /\ batchPc = [b \in Batches |-> "idle"]
    /\ batchItem = [b \in Batches |-> 0]
    /\ batchLeft = [b \in Batches |-> FALSE]
    /\ batchRead = [b \in Batches |-> <<>>]
    /\ batchNew = [b \in Batches |-> 0]
    /\ delivered = [b \in Batches |-> {}]
    /\ appended = {}

\* nothing asked of the media library and nothing saved yet
InitMediaVars ==
    /\ permissionDenied = {}
    /\ savedToGallery = {}
    /\ savedToAppDirectory = {}

\* AudioCompressionService as the module is loaded: no instance, initialized = false
InitServiceVars ==
    /\ instance = 0
    /\ instancesCreated = 0
    /\ initialized = FALSE
    /\ callPc = [b \in Batches |-> "idle"]
    /\ callInstance = [b \in Batches |-> 0]
    /\ callCount = [b \in Batches |-> 0]
    /\ setLogLevelCalls = 0
    /\ enableLogsCalls = 0
    /\ initFailed = 0

\* cancelConversion not called yet
InitCancelCallVars ==
    /\ cancelCallPc = "idle"
    /\ cancelCalls = 0
    /\ lastCancel = [inFlight |-> {}, passed |-> 0]

\* the value of an absent number (undefined)
Undefined == -1

\* quality || 75: 0 is falsy as undefined is
QualityOrDefault(q) == IF q = Undefined \/ q = 0 THEN 75 ELSE q

\* useState initial value of selectedQuality: 75 for an image format with a quality
\* setting, undefined for one without
InitialQuality(hasQuality) == IF hasQuality THEN 75 ELSE Undefined

\* the settings screen as it opens on an image format with a quality setting
InitQualityVars ==
    /\ qualityPc = "settings"
    /\ formatHasQuality = TRUE
    /\ selectedQuality = InitialQuality(TRUE)
    /\ quality = Undefined
    /\ qualityApplied = <<>>

InitOtherVars == InitMediaVars /\ InitServiceVars /\ InitCancelCallVars /\ InitQualityVars

MediaTypes(op) ==
    IF op = "compress" THEN {"image", "audio", "video"}
    ELSE {"image", "audio", "video", "document"}

\* which progress screen handleProceedToConversion leads to
Runner ==
    IF operationType = "compress"
    THEN IF mediaType = "audio" THEN "audioCompression" ELSE "imageCompression"
    ELSE "generic"

Init ==
    /\ screen = "home"
    /\ operationType \in {"format", "compress"}
    /\ mediaType \in MediaTypes(operationType)
    /\ selectedFiles \in 0..MaxFiles
    /\ files = 0
    /\ outputFormatSupported \in
          (IF operationType = "format" /\ mediaType = "image" THEN BOOLEAN ELSE {TRUE})
    /\ alertShown = "none"
    /\ mounted = FALSE
    /\ pc = "idle"
    /\ i = 0
    /\ currentFileIndex = 0
    /\ isCancelledRef = FALSE
    /\ env = "none"
    /\ conversionState = "preparing"
    /\ results = <<>>
    /\ processedFiles = <<>>
    /\ overallProgress = Zero
    /\ currentStatusMessage = "Preparing files..."
    /\ fileProgress = <<>>
    /\ isProcessing = FALSE
    /\ isCompleted = FALSE
    /\ totalProgress = Zero
    /\ currentProgress = 0
    /\ progressInterval = FALSE
    /\ history = <<>>
    /\ nextId = 1
    /\ storageFailed = FALSE
    /\ started = <<>>
    /\ expected = [k \in 1..MaxFiles |-> FALSE]
    /\ cancelAt = 0
    /\ cancelPc = "idle"
    /\ opCount = 0
    /\ lastOp = "none"
    /\ lastId = 0
    /\ lastReadOk = TRUE
    /\ lastWriteOk = TRUE
    /\ InitConcurrentVars
    /\ InitSelectVars
    /\ InitOtherVars

(***************************************************************************)
(* Submitting a batch                                                      *)
(***************************************************************************)
\* the empty-selection guard dropped
NoFilesSelected_Never(n) == FALSE

\* HomeScreen.handleProceedToConversion: selectedFiles.length === 0
NoFilesSelected(n) == n = 0

\* GenericConversionSettingsScreen.handleConvert: files.length === 0
NoFilesToConvert(n) == n = 0

\* HomeScreen.handleProceedToConversion
HandleProceedToConversion ==
    /\ screen = "home"
    /\ alertShown = "none"
    /\ IF NoFilesSelected(selectedFiles)
       THEN /\ alertShown' = "noFiles"
            /\ UNCHANGED <<screen, files>>
       ELSE /\ screen' = "settings"
            /\ files' = selectedFiles
            /\ UNCHANGED alertShown
    /\ UNCHANGED <<operationType, mediaType, selectedFiles, outputFormatSupported,
                   mounted, pc, i, currentFileIndex, isCancelledRef, env,
                   genericVars, compressVars, storeVars, started, expected,
                   cancelVars, opVars, concurrentVars, selectVars, otherVars>>

\* GenericConversionSettingsScreen.handleConvert
HandleConvert ==
    /\ screen = "settings"
    /\ Runner = "generic"
    /\ alertShown = "none"
    /\ IF NoFilesToConvert(files)
       THEN /\ alertShown' = "noFiles"
            /\ UNCHANGED screen
       ELSE /\ screen' = "progress"
            /\ UNCHANGED alertShown
    /\ UNCHANGED <<operationType, mediaType, selectedFiles, files, outputFormatSupported,
                   mounted, pc, i, currentFileIndex, isCancelledRef, env,
                   genericVars, compressVars, storeVars, started, expected,
                   cancelVars, opVars, concurrentVars, selectVars, otherVars>>

\* CompressionSettingsScreen / AudioCompressionSettingsScreen handleStartCompression:
\* every branch of the permission dialog navigates to the progress screen
HandleStartCompression ==
    /\ screen = "settings"
    /\ Runner \in {"imageCompression", "audioCompression"}
    /\ screen' = "progress"
    /\ UNCHANGED <<operationType, mediaType, selectedFiles, files, outputFormatSupported,
                   alertShown, mounted, pc, i, currentFileIndex, isCancelledRef, env,
                   genericVars, compressVars, storeVars, started, expected,
                   cancelVars, opVars, concurrentVars, selectVars, otherVars>>

(***************************************************************************)
(* Generic conversion runner (GenericConversionProgressScreen)             *)
(***************************************************************************)
\* the faults the collaborators of one item can raise, keyed by conversionType:
\* the first step of the processor that fails, or "none"
Faults(type) ==
    CASE type = "image" -> {"none", "missing", "manipulate", "permission", "createAsset"}
      [] type \in {"audio", "video"} -> {"none", "ffmpegFail", "ffmpegThrow"}
      [] OTHER -> {"none"}

\* the outcome the processor reaches for a fault when nobody cancels
WouldSucceed(type, fault) ==
    CASE type = "image" -> outputFormatSupported /\ fault = "none"
      [] type \in {"audio", "video"} -> fault = "none"
      [] OTHER -> FALSE

\* the first await of the processor startOverallConversion dispatches to
FirstAwait(type) ==
    CASE type = "image" -> IF outputFormatSupported THEN "getInfo" ELSE "unsupportedDelay"
      [] type \in {"audio", "video"} -> "ffmpeg"
      [] OTHER -> "notImplementedDelay"

\* the message of an exception a library throws: empty, plain, or naming a permission
ThrownMessages == {"", "Operation failed", "Missing permission"}

\* message || fallback without its fallback
MessageOr_NoFallback(message, fallback) == message

\* message || fallback
MessageOr(message, fallback) == IF message = "" THEN fallback ELSE message

\* handleImageProcessingError: a message naming a known cause is replaced by a fixed text
\* (shown for 'permission'; the other keywords are handled the same way)
HandleImageProcessingError(message) ==
    IF message = "Missing permission"
    THEN "Permission denied. Please check app permissions."
    ELSE MessageOr(message, "Unknown error occurred during image processing.")

\* FFmpegService.convertAudio / convertVideo: the ConversionResult returned for a fault;
\* an exception is caught and its message returned as the error
ConversionResult(fault, thrown) ==
    CASE fault = "none" -> [success |-> TRUE, error |-> "none"]
      [] fault = "ffmpegThrow" -> [success |-> FALSE, error |-> thrown]
      [] OTHER -> [success |-> FALSE, error |-> "Conversion failed. Return code: 1."]

Success(item) == [item |-> item, success |-> TRUE, outputPath |-> item, error |-> "none"]
Failure(item, message) ==
    [item |-> item, success |-> FALSE, outputPath |-> 0, error |-> message]

\* the check after the library call ignoring the flag
CancelledAfterLibrary_Ignored(flag) == FALSE

\* if (isCancelledRef.current) after the awaited library call of a processor
CancelledAfterLibrary(flag) == flag

\* the loop header ignoring the flag
CancelledAtLoopTop_Ignored(flag) == FALSE

\* if (isCancelledRef.current) at the top of the loop body
CancelledAtLoopTop(flag) == flag

\* the progress of the finished item left out
OverallProgressAfter_OffByOne(idx, total) == Fraction(idx, total)

\* setOverallProgress((i + 1) / totalFiles)
OverallProgressAfter(idx, total) == Fraction(idx + 1, total)

\* the final state update calling a batch completed as soon as one item succeeded
FinalState_AnySuccess(cs, cancelled, res, total) ==
    LET successCount == Cardinality({k \in 1..Len(res) : res[k].success})
    IN  IF cancelled THEN cs
        ELSE IF successCount > 0 THEN "completed"
        ELSE "error"

\* the final state update made without looking at isCancelledRef
FinalState_IgnoresCancel(cs, cancelled, res, total) ==
    LET successCount == Cardinality({k \in 1..Len(res) : res[k].success})
    IN  IF successCount = total THEN "completed" ELSE "error"

\* the final state update left out
FinalState_Omitted(cs, cancelled, res, total) == cs

\* the final state update after the loop
FinalState(cs, cancelled, res, total) ==
    LET successCount == Cardinality({k \in 1..Len(res) : res[k].success})
    IN  IF cancelled THEN cs
        ELSE IF successCount = total THEN "completed"
        ELSE "error"

\* the status message of the final state update; the three texts are kept by their kind
FinalMessage(msg, cancelled, res, total) ==
    LET successCount == Cardinality({k \in 1..Len(res) : res[k].success})
    IN  IF cancelled THEN msg
        ELSE IF successCount = total THEN "All files converted successfully!"
        ELSE IF successCount > 0 THEN "Some converted, some failed."
        ELSE "All conversions failed."

\* the body of the loop up to the first await of the processor
StartItem(j, firstAwait, faults) ==
    /\ i' = j
    /\ currentFileIndex' = j
    /\ \E f \in faults :
          /\ env' = f
          /\ expected' = [expected EXCEPT ![j + 1] = WouldSucceed(mediaType, f)]
    /\ started' = Append(started, j + 1)
    /\ pc' = firstAwait

\* the for-loop header at index j, then either the next item or the code after the loop
GenericLoop(j, cs, cancelled) ==
    IF j < files
    THEN IF CancelledAtLoopTop(cancelled)
         THEN /\ conversionState' = FinalState("cancelled", cancelled, results, files)
              /\ currentStatusMessage' =
                    FinalMessage("Conversion cancelled.", cancelled, results, files)
              /\ pc' = "done"
              /\ i' = j
              /\ UNCHANGED <<currentFileIndex, env, started, expected>>
         ELSE /\ conversionState' = cs
              /\ currentStatusMessage' = "Processing..."
              /\ StartItem(j, FirstAwait(mediaType), Faults(mediaType))
    ELSE /\ conversionState' = FinalState(cs, cancelled, results, files)
         /\ currentStatusMessage' = FinalMessage(currentStatusMessage, cancelled, results, files)
         /\ pc' = "done"
         /\ i' = j
         /\ UNCHANGED <<currentFileIndex, env, started, expected>>

\* useEffect on mount: isCancelledRef.current = false; startOverallConversion()
MountGeneric ==
    /\ screen = "progress"
    /\ Runner = "generic"
    /\ pc = "idle"
    /\ ~mounted
    /\ mounted' = TRUE
    /\ isCancelledRef' = FALSE
    /\ GenericLoop(0, "converting", FALSE)
    /\ UNCHANGED <<navVars, results, processedFiles, overallProgress,
                   compressVars, storeVars, cancelVars, opVars, concurrentVars, selectVars, otherVars>>

\* the processor returns: results.push, setProcessedFiles, setOverallProgress,
\* then addConversion is called and awaited
ReturnResult(r) ==
    /\ results' = Append(results, r)
    /\ processedFiles' = Append(results, r)
    /\ overallProgress' = OverallProgressAfter(i, files)
    /\ pc' = "addConversion"
    /\ UNCHANGED <<navVars, mounted, i, currentFileIndex, isCancelledRef, env,
                   conversionState, currentStatusMessage, compressVars, storeVars, started, expected,
                   cancelVars, opVars, concurrentVars, selectVars>>

\* the processor announces its next step and moves on to its next await
NextAwait(where) ==
    /\ pc' = where
    /\ currentStatusMessage' = "Processing..."
    /\ UNCHANGED <<navVars, mounted, i, currentFileIndex, isCancelledRef, env,
                   conversionState, results, processedFiles, overallProgress, compressVars, storeVars, started, expected,
                   cancelVars, opVars, concurrentVars, selectVars>>

\* processImageFile: FileSystem.getInfoAsync settles
GetInfoSettles ==
    /\ pc = "getInfo"
    /\ IF env = "missing"
       THEN ReturnResult(Failure(i + 1, "File no longer exists or is not accessible"))
       ELSE NextAwait("manipulate")
    /\ UNCHANGED otherVars

\* processImageFile: ImageManipulator.manipulateAsync settles
ManipulateSettles ==
    /\ pc = "manipulate"
    /\ IF env = "manipulate"
       THEN \E thrown \in ThrownMessages :
               ReturnResult(Failure(i + 1, HandleImageProcessingError(thrown)))
       ELSE IF CancelledAfterLibrary(isCancelledRef)
       THEN ReturnResult(Failure(i + 1, "Cancelled by user"))
       ELSE NextAwait("requestPermissions")
    /\ UNCHANGED otherVars

\* if (status !== 'granted') of processImageFile: the processor returns a failure there
PermissionRefused(status) == status # "granted"

\* processImageFile: MediaLibrary.requestPermissionsAsync settles
RequestPermissionsSettles ==
    /\ pc = "requestPermissions"
    /\ LET status == IF env = "permission" THEN "denied" ELSE "granted"
       IN  /\ IF PermissionRefused(status)
              THEN ReturnResult(Failure(i + 1, "Media Library permission denied"))
              ELSE NextAwait("createAsset")
           /\ permissionDenied' =
                 (IF status = "granted" THEN permissionDenied ELSE permissionDenied \cup {i + 1})
    /\ UNCHANGED <<savedToGallery, savedToAppDirectory, nonMediaVars>>

\* processImageFile: MediaLibrary.createAssetAsync settles
CreateAssetSettles ==
    /\ pc = "createAsset"
    /\ IF env = "createAsset"
       THEN \E thrown \in ThrownMessages :
               /\ ReturnResult(Failure(i + 1, HandleImageProcessingError(thrown)))
               /\ UNCHANGED savedToGallery
       ELSE /\ ReturnResult(Success(i + 1))
            /\ savedToGallery' = savedToGallery \cup {i + 1}
    /\ UNCHANGED <<permissionDenied, savedToAppDirectory, nonMediaVars>>

\* processAudioFile / processVideoFile: FFmpegService.convertAudio / convertVideo settles
FFmpegSettles ==
    /\ pc = "ffmpeg"
    /\ \E thrown \in ThrownMessages :
          LET result == ConversionResult(env, thrown)
          IN  IF CancelledAfterLibrary(isCancelledRef)
              THEN ReturnResult(Failure(i + 1, "Cancelled by user"))
              ELSE IF result.success
              THEN ReturnResult(Success(i + 1))
              ELSE ReturnResult(Failure(i + 1, MessageOr(result.error, "Conversion failed")))
    /\ UNCHANGED otherVars

\* the one-second timeout of an unsupported target format (processImageFile)
UnsupportedDelaySettles ==
    /\ pc = "unsupportedDelay"
    /\ ReturnResult(Failure(i + 1, "Unsupported format"))
    /\ UNCHANGED otherVars

\* the one-second timeout of a conversion type that is not implemented
NotImplementedDelaySettles ==
    /\ pc = "notImplementedDelay"
    /\ ReturnResult(Failure(i + 1, "Conversion type not implemented yet"))
    /\ UNCHANGED otherVars

\* the awaited addConversion settles; then the delay between files or the next iteration
AddConversionSettlesGeneric ==
    /\ pc = "addConversion"
    /\ LET result == results[Len(results)]
       IN  \E readOk, writeOk \in BOOLEAN :
              /\ history' = AddConversion(history,
                               NewItem(nextId, i + 1, result.success, result.outputPath),
                               readOk, writeOk)
              /\ storageFailed' = (storageFailed \/ ~readOk \/ ~writeOk)
    /\ nextId' = nextId + 1
    /\ IF i < files - 1 /\ ~isCancelledRef
       THEN /\ pc' = "delay"
            /\ UNCHANGED <<i, currentFileIndex, env, started, expected, conversionState,
                           currentStatusMessage>>
       ELSE GenericLoop(i + 1, conversionState, isCancelledRef)
    /\ UNCHANGED <<navVars, mounted, isCancelledRef, results, processedFiles,
                   overallProgress, compressVars, cancelVars, opVars, concurrentVars, selectVars, otherVars>>

\* the 100 ms delay between two files settles
DelaySettles ==
    /\ pc = "delay"
    /\ GenericLoop(i + 1, conversionState, isCancelledRef)
    /\ UNCHANGED <<navVars, mounted, isCancelledRef, results, processedFiles,
                   overallProgress, compressVars, storeVars, cancelVars, opVars, concurrentVars, selectVars, otherVars>>

\* const allDone
AllDone == conversionState \in {"completed", "error", "cancelled"}

\* the iteration a cancellation request falls into
NoteCancel ==
    IF cancelAt = 0 /\ pc \notin {"idle", "done"}
    THEN cancelAt' = i + 1 /\ cancelPc' = pc
    ELSE UNCHANGED cancelVars

\* handleCancelConversion setting the state shown but not the flag the runner reads
HandleCancelConversion_StateOnly ==
    /\ mounted
    /\ Runner = "generic"
    /\ ~AllDone
    /\ conversionState' = "cancelled"
    /\ currentStatusMessage' = "Cancelling conversion..."
    /\ NoteCancel
    /\ UNCHANGED <<navVars, mounted, pc, i, currentFileIndex, env, isCancelledRef,
                   results, processedFiles, overallProgress,
                   compressVars, storeVars, started, expected, opVars, concurrentVars,
                   selectVars, otherVars>>

\* handleCancelConversion (the header button shown while not allDone)
HandleCancelConversion ==
    /\ mounted
    /\ Runner = "generic"
    /\ ~AllDone
    /\ isCancelledRef' = TRUE
    /\ conversionState' = "cancelled"
    /\ currentStatusMessage' = "Cancelling conversion..."
    /\ NoteCancel
    /\ UNCHANGED <<navVars, mounted, pc, i, currentFileIndex, env,
                   results, processedFiles, overallProgress,
                   compressVars, storeVars, started, expected, opVars, concurrentVars, selectVars, otherVars>>

\* the progress screen is left (back navigation, the Cancel button of the compression
\* screens, popToTop / Go Home); the generic screen's cleanup sets isCancelledRef
Unmount ==
    /\ mounted
    /\ mounted' = FALSE
    /\ screen' = "left"
    /\ isCancelledRef' = (IF Runner = "generic" THEN TRUE ELSE isCancelledRef)
    /\ NoteCancel
    /\ UNCHANGED <<operationType, mediaType, selectedFiles, files, outputFormatSupported,
                   alertShown, pc, i, currentFileIndex, env,
                   genericVars, compressVars, storeVars, started, expected, opVars, concurrentVars, selectVars, otherVars>>

(***************************************************************************)
(* Image compression runner (CompressionProgressScreen)                    *)
(***************************************************************************)
\* outcomes of CompressionService.compressImage / AudioCompressionService.compressAudio,
\* which catch every error and return { success: false, error }
CompressionFaults == {"none", "compressFail"}

\* compressImage / compressAudio after the library call succeeded: the output is written
\* under documentDirectory, then put into the gallery too when
\* checkMediaLibraryPermissions returns true and createAssetAsync does not throw
SaveCompressed(item, hasPermission, assetCreated) ==
    /\ savedToAppDirectory' = savedToAppDirectory \cup {item}
    /\ savedToGallery' =
          (IF hasPermission /\ assetCreated THEN savedToGallery \cup {item} ELSE savedToGallery)
    /\ permissionDenied' =
          (IF hasPermission THEN permissionDenied ELSE permissionDenied \cup {item})

\* useState initial value: files.map(file => ({ file, status: 'pending' }))
PendingImage == [status |-> "pending", result |-> FALSE, error |-> "none"]

\* the update applied to every entry instead of the one at index i
SetImage_AllItems(fp, item, status, result, error) ==
    [k \in 1..Len(fp) |-> [status |-> status, result |-> result, error |-> error]]

\* setFileProgress(prev => prev.map((fp, index) => index === i ? { ...fp, ... } : fp))
SetImage(fp, item, status, result, error) ==
    [fp EXCEPT ![item] = [status |-> status, result |-> result, error |-> error]]

\* setTotalProgress(i / files.length)
ProgressAtItemStart(idx, total) == Fraction(idx, total)

\* setTotalProgress((i + 1) / files.length)
ProgressAfterItem(idx, total) == Fraction(idx + 1, total)

\* the for-loop header at index j, then the next item or the code after the loop;
\* fp and tp are fileProgress and totalProgress as the previous iteration left them
ImageLoop(j, fp, tp) ==
    IF j < files
    THEN /\ fileProgress' = SetImage(fp, j + 1, "processing", fp[j + 1].result, fp[j + 1].error)
         /\ totalProgress' = ProgressAtItemStart(j, files)
         /\ StartItem(j, "compressImage", CompressionFaults)
         /\ UNCHANGED isCompleted
    ELSE /\ fileProgress' = fp
         /\ totalProgress' = tp
         /\ isCompleted' = TRUE
         /\ pc' = "done"
         /\ i' = j
         /\ UNCHANGED <<currentFileIndex, env, started, expected>>

\* useEffect on mount: startCompression()
MountImageCompression ==
    /\ screen = "progress"
    /\ Runner = "imageCompression"
    /\ pc = "idle"
    /\ ~mounted
    /\ mounted' = TRUE
    /\ isProcessing' = (0 < files)
    /\ ImageLoop(0, [k \in 1..files |-> PendingImage], Zero)
    /\ UNCHANGED <<navVars, isCancelledRef, genericVars, currentProgress,
                   progressInterval, storeVars, cancelVars, opVars, concurrentVars, selectVars, otherVars>>

\* the error leaving the loop instead of being caught in its body
CatchBlockOfItem_Rethrown == "done"

\* catch (error) inside the loop body: the failed file is saved to the history there
CatchBlockOfItem == "addConversionFailed"

\* compressImage settles: the file is marked completed or (through the throw) error,
\* and addConversion is called and awaited
CompressImageSettles ==
    /\ pc = "compressImage"
    /\ IF env = "none"
       THEN /\ fileProgress' = SetImage(fileProgress, i + 1, "completed", TRUE,
                                        fileProgress[i + 1].error)
            /\ pc' = "addConversionCompleted"
            /\ \E hasPermission, assetCreated \in BOOLEAN :
                  SaveCompressed(i + 1, hasPermission, assetCreated)
       ELSE /\ UNCHANGED mediaVars
            /\ \E thrown \in ThrownMessages :
                  fileProgress' = SetImage(fileProgress, i + 1, "error",
                                           fileProgress[i + 1].result,
                                           MessageOr(MessageOr(thrown, "Compression failed"),
                                                     "Compression failed"))
            /\ pc' = CatchBlockOfItem
    /\ UNCHANGED <<navVars, mounted, i, currentFileIndex, isCancelledRef, env,
                   genericVars, isProcessing, isCompleted, totalProgress,
                   currentProgress, progressInterval, storeVars, started, expected,
                   cancelVars, opVars, concurrentVars, selectVars, nonMediaVars>>

\* the awaited addConversion settles; setTotalProgress, then the next iteration.
\* A rejection inside the try block would be caught by the catch block of the item, a
\* rejection inside the catch block would leave the loop.
AddConversionSettlesImage ==
    /\ pc \in {"addConversionCompleted", "addConversionFailed"}
    /\ LET ok == (pc = "addConversionCompleted")
       IN  \E readOk, writeOk \in BOOLEAN :
              /\ history' = AddConversion(history,
                               NewItem(nextId, i + 1, ok, IF ok THEN i + 1 ELSE 0),
                               readOk, writeOk)
              /\ storageFailed' = (storageFailed \/ ~readOk \/ ~writeOk)
              /\ IF AddConversionRejects(readOk, writeOk)
                 THEN /\ IF ok
                         THEN /\ fileProgress' = SetImage(fileProgress, i + 1, "error",
                                                  fileProgress[i + 1].result, "Storage error")
                              /\ pc' = CatchBlockOfItem
                         ELSE /\ pc' = "done"
                              /\ UNCHANGED fileProgress
                      /\ UNCHANGED <<i, currentFileIndex, env, started, expected,
                                     isProcessing, isCompleted, totalProgress>>
                 ELSE /\ isProcessing' = (i + 1 < files)
                      /\ ImageLoop(i + 1, fileProgress, ProgressAfterItem(i, files))
    /\ nextId' = nextId + 1
    /\ UNCHANGED <<navVars, mounted, isCancelledRef, genericVars, currentProgress,
                   progressInterval, cancelVars, opVars, concurrentVars, selectVars, otherVars>>

(***************************************************************************)
(* Audio compression runner (AudioCompressionProgressScreen)               *)
(***************************************************************************)
\* useState initial value: files.map(file => ({ file, status: 'pending', progress: 0 }))
PendingAudio == [status |-> "pending", result |-> FALSE, error |-> "none", progress |-> 0]

\* currentProgress += 15; if (currentProgress > 90) currentProgress = 90
TickProgress(p) == IF p + 15 > 90 THEN 90 ELSE p + 15

\* the current file's own progress shown as the overall progress
InterpolatedProgress_PerFile(idx, p, total) == Fraction(p, 100)

\* (completedFiles + (currentProgress / 100)) / totalFiles
InterpolatedProgress(idx, p, total) == Fraction(100 * idx + p, 100 * total)

\* the for-loop header at index j, then the next item or the code after the loop
AudioLoop(j, fp, tp) ==
    IF j < files
    THEN /\ fileProgress' = [fp EXCEPT ![j + 1].status = "processing", ![j + 1].progress = 0]
         /\ totalProgress' = tp
         /\ currentProgress' = 0
         /\ progressInterval' = TRUE
         /\ StartItem(j, "compressAudio", CompressionFaults)
         /\ UNCHANGED isCompleted
    ELSE /\ fileProgress' = fp
         /\ totalProgress' = tp
         /\ progressInterval' = FALSE
         /\ isCompleted' = TRUE
         /\ pc' = "done"
         /\ i' = j
         /\ UNCHANGED <<currentFileIndex, env, started, expected, currentProgress>>

\* useEffect on mount: startCompression()
MountAudioCompression ==
    /\ screen = "progress"
    /\ Runner = "audioCompression"
    /\ pc = "idle"
    /\ ~mounted
    /\ mounted' = TRUE
    /\ isProcessing' = (0 < files)
    /\ AudioLoop(0, [k \in 1..files |-> PendingAudio], Zero)
    /\ UNCHANGED <<navVars, isCancelledRef, genericVars, storeVars, cancelVars, opVars, concurrentVars, selectVars, otherVars>>

\* the setInterval callback, every 300 ms while compressAudio is awaited
IntervalTick ==
    /\ progressInterval
    /\ pc = "compressAudio"
    /\ currentProgress' = TickProgress(currentProgress)
    /\ fileProgress' = [fileProgress EXCEPT ![i + 1].progress = TickProgress(currentProgress)]
    /\ totalProgress' = InterpolatedProgress(i, TickProgress(currentProgress), files)
    /\ UNCHANGED <<navVars, mounted, pc, i, currentFileIndex, isCancelledRef, env,
                   genericVars, isProcessing, isCompleted, progressInterval,
                   storeVars, started, expected, cancelVars, opVars, concurrentVars, selectVars, otherVars>>

\* the settled file keeping the status it had
AudioSettled_KeepsStatus(fp, item, success, message) ==
    [fp EXCEPT ![item].result = success, ![item].progress = 100]

\* the settled file always given the result object
AudioSettled_AlwaysResult(fp, item, success, message) ==
    [fp EXCEPT ![item] = [status |-> IF success THEN "completed" ELSE "error",
                          result |-> TRUE,
                          error |-> IF success THEN "none" ELSE message,
                          progress |-> 100]]

\* the record compressAudio's result is stored into
AudioSettled(fp, item, success, message) ==
    [fp EXCEPT ![item] = [status |-> IF success THEN "completed" ELSE "error",
                          result |-> success,
                          error |-> IF success THEN "none" ELSE message,
                          progress |-> 100]]

\* compressAudio settles: clearInterval, the file is marked completed or error; a success
\* is saved to the history (awaited), a failure goes straight to the next iteration
CompressAudioSettles ==
    /\ pc = "compressAudio"
    /\ IF env = "none"
       THEN /\ fileProgress' = AudioSettled(fileProgress, i + 1, TRUE, "none")
            /\ progressInterval' = FALSE
            /\ pc' = "addConversionAudio"
            /\ \E hasPermission, assetCreated \in BOOLEAN :
                  SaveCompressed(i + 1, hasPermission, assetCreated)
            /\ UNCHANGED <<i, currentFileIndex, env, started, expected, isProcessing,
                           isCompleted, totalProgress, currentProgress>>
       ELSE /\ isProcessing' = (i + 1 < files)
            /\ UNCHANGED mediaVars
            /\ \E thrown \in ThrownMessages :
                  AudioLoop(i + 1,
                            AudioSettled(fileProgress, i + 1, FALSE,
                                         MessageOr(thrown, "Unknown error occurred")),
                            ProgressAfterItem(i, files))
    /\ UNCHANGED <<navVars, mounted, isCancelledRef, genericVars, storeVars,
                   cancelVars, opVars, concurrentVars, selectVars, nonMediaVars>>

\* the awaited addConversion settles; setTotalProgress, then the next iteration
AddConversionSettlesAudio ==
    /\ pc = "addConversionAudio"
    /\ \E readOk, writeOk \in BOOLEAN :
          /\ history' = AddConversion(history, NewItem(nextId, i + 1, TRUE, i + 1),
                                      readOk, writeOk)
          /\ storageFailed' = (storageFailed \/ ~readOk \/ ~writeOk)
    /\ nextId' = nextId + 1
    /\ isProcessing' = (i + 1 < files)
    /\ AudioLoop(i + 1, fileProgress, ProgressAfterItem(i, files))
    /\ UNCHANGED <<navVars, mounted, isCancelledRef, genericVars, cancelVars, opVars, concurrentVars, selectVars, otherVars>>

(***************************************************************************)
(* The batch specification                                                 *)
(***************************************************************************)
Next ==
    \/ HandleProceedToConversion
    \/ HandleConvert
    \/ HandleStartCompression
    \/ MountGeneric
    \/ GetInfoSettles
    \/ ManipulateSettles
    \/ RequestPermissionsSettles
    \/ CreateAssetSettles
    \/ FFmpegSettles
    \/ UnsupportedDelaySettles
    \/ NotImplementedDelaySettles
    \/ AddConversionSettlesGeneric
    \/ DelaySettles
    \/ HandleCancelConversion
    \/ Unmount
    \/ MountImageCompression
    \/ CompressImageSettles
    \/ AddConversionSettlesImage
    \/ MountAudioCompression
    \/ IntervalTick
    \/ CompressAudioSettles
    \/ AddConversionSettlesAudio

Spec == Init /\ [][Next]_vars

\* the continuations that run when an awaited promise of a runner settles: a library call
\* of a processor, a history write, or a timeout
Settles ==
    \/ GetInfoSettles
    \/ ManipulateSettles
    \/ RequestPermissionsSettles
    \/ CreateAssetSettles
    \/ FFmpegSettles
    \/ UnsupportedDelaySettles
    \/ NotImplementedDelaySettles
    \/ AddConversionSettlesGeneric
    \/ DelaySettles
    \/ CompressImageSettles
    \/ AddConversionSettlesImage
    \/ CompressAudioSettles
    \/ AddConversionSettlesAudio

\* the progress screen is mounted once it has been navigated to
Mounts ==
    \/ MountGeneric
    \/ MountImageCompression
    \/ MountAudioCompression

\* the batch specification in which every awaited promise settles; user events
\* (cancel, leaving the screen) and the interval callback stay optional
SpecLive == Spec /\ WF_vars(Settles) /\ WF_vars(Mounts)

(***************************************************************************)
(* The history store on its own: addConversion, removeConversion and       *)
(* clearHistory called one after the other on a store that already holds   *)
(* entries                                                                 *)
(***************************************************************************)
\* a store after n sequential successful appends, most recent first
StoreOf(n) == [k \in 1..n |-> NewItem(n + 1 - k, 0, TRUE, 0)]

InitHistory ==
    /\ screen = "home"
    /\ operationType = "format"
    /\ mediaType = "image"
    /\ selectedFiles = 0
    /\ files = 0
    /\ outputFormatSupported = TRUE
    /\ alertShown = "none"
    /\ mounted = FALSE
    /\ pc = "idle"
    /\ i = 0
    /\ currentFileIndex = 0
    /\ isCancelledRef = FALSE
    /\ env = "none"
    /\ conversionState = "preparing"
    /\ results = <<>>
    /\ processedFiles = <<>>
    /\ overallProgress = Zero
    /\ currentStatusMessage = "Preparing files..."
    /\ fileProgress = <<>>
    /\ isProcessing = FALSE
    /\ isCompleted = FALSE
    /\ totalProgress = Zero
    /\ currentProgress = 0
    /\ progressInterval = FALSE
    /\ \E n \in {0, 1, MAX_HISTORY_ITEMS - 1, MAX_HISTORY_ITEMS} :
          /\ history = StoreOf(n)
          /\ nextId = n + 1
    /\ storageFailed = FALSE
    /\ started = <<>>
    /\ expected = [k \in 1..MaxFiles |-> FALSE]
    /\ cancelAt = 0
    /\ cancelPc = "idle"
    /\ opCount = 0
    /\ lastOp = "none"
    /\ lastId = 0
    /\ lastReadOk = TRUE
    /\ lastWriteOk = TRUE
    /\ InitConcurrentVars
    /\ InitSelectVars
    /\ InitOtherVars

runnerVars == <<navVars, mounted, pc, i, currentFileIndex, isCancelledRef, env,
                genericVars, compressVars, started, expected, cancelVars,
                concurrentVars, selectVars, otherVars>>

\* ConversionHistoryManager.addConversion
CallAddConversion ==
    /\ opCount < MaxOps
    /\ \E success, readOk, writeOk \in BOOLEAN :
          /\ history' = AddConversion(history, NewItem(nextId, 0, success, 0),
                                      readOk, writeOk)
          /\ storageFailed' = (storageFailed \/ ~readOk \/ ~writeOk)
          /\ lastReadOk' = readOk
          /\ lastWriteOk' = writeOk
    /\ nextId' = nextId + 1
    /\ opCount' = opCount + 1
    /\ lastOp' = "add"
    /\ lastId' = nextId
    /\ UNCHANGED runnerVars

\* the ids tried by removeConversion: the newest, the oldest, and one that is not stored
RemovableIds(h) == {0} \cup (IF h = <<>> THEN {} ELSE {h[1].id, h[Len(h)].id})

\* ConversionHistoryManager.removeConversion
CallRemoveConversion ==
    /\ opCount < MaxOps
    /\ \E id \in RemovableIds(history) : \E readOk, writeOk \in BOOLEAN :
          /\ history' = RemoveConversion(history, id, readOk, writeOk)
          /\ storageFailed' = (storageFailed \/ ~readOk \/ ~writeOk)
          /\ lastId' = id
          /\ lastReadOk' = readOk
          /\ lastWriteOk' = writeOk
    /\ opCount' = opCount + 1
    /\ lastOp' = "remove"
    /\ UNCHANGED <<runnerVars, nextId>>

\* ConversionHistoryManager.clearHistory
CallClearHistory ==
    /\ opCount < MaxOps
    /\ \E writeOk \in BOOLEAN :
          /\ history' = ClearHistory(history, writeOk)
          /\ storageFailed' = (storageFailed \/ ~writeOk)
          /\ lastWriteOk' = writeOk
    /\ lastId' = 0
    /\ lastReadOk' = TRUE
    /\ opCount' = opCount + 1
    /\ lastOp' = "clear"
    /\ UNCHANGED <<runnerVars, nextId>>

NextHistory ==
    \/ CallAddConversion
    \/ CallRemoveConversion
    \/ CallClearHistory

SpecHistory == InitHistory /\ [][NextHistory]_vars

(***************************************************************************)
(* Two generic audio conversions alive at once: the first progress screen  *)
(* is left while FFmpegService.convertAudio is awaited (its loop goes on   *)
(* until the item in flight is recorded), and a second batch is started.   *)
(* Both use the FFmpegService singleton and the one history store; here    *)
(* addConversion is taken await by await (getItem, then setItem).          *)
(***************************************************************************)
singleVars == <<navVars, mounted, pc, i, currentFileIndex, isCancelledRef, env,
                genericVars, compressVars, started, expected, cancelVars, opVars,
                selectVars, otherVars>>

InitConcurrent ==
    /\ screen = "progress"
    /\ operationType = "format"
    /\ mediaType = "audio"
    /\ selectedFiles = BatchFiles
    /\ files = BatchFiles
    /\ outputFormatSupported = TRUE
    /\ alertShown = "none"
    /\ mounted = FALSE
    /\ pc = "idle"
    /\ i = 0
    /\ currentFileIndex = 0
    /\ isCancelledRef = FALSE
    /\ env = "none"
    /\ conversionState = "preparing"
    /\ results = <<>>
    /\ processedFiles = <<>>
    /\ overallProgress = Zero
    /\ currentStatusMessage = "Preparing files..."
    /\ fileProgress = <<>>
    /\ isProcessing = FALSE
    /\ isCompleted = FALSE
    /\ totalProgress = Zero
    /\ currentProgress = 0
    /\ progressInterval = FALSE
    /\ history = <<>>
    /\ nextId = 1
    /\ storageFailed = FALSE
    /\ started = <<>>
    /\ expected = [k \in 1..MaxFiles |-> FALSE]
    /\ cancelAt = 0
    /\ cancelPc = "idle"
    /\ opCount = 0
    /\ lastOp = "none"
    /\ lastId = 0
    /\ lastReadOk = TRUE
    /\ lastWriteOk = TRUE
    /\ InitConcurrentVars
    /\ InitSelectVars
    /\ InitOtherVars

\* the session FFmpegKit.execute creates for an item, and the item's name in the history
SessionOf(b, item) == 10 * b + item

\* the for-loop header of batch b at item j: the processor is entered and convertAudio
\* sets this.progressCallback = onProgress, or the loop ends
BatchLoop(b, j) ==
    IF j <= BatchFiles /\ ~batchLeft[b]
    THEN /\ batchItem' = [batchItem EXCEPT ![b] = j]
         /\ batchPc' = [batchPc EXCEPT ![b] = "execute"]
         /\ progressCallback' = b
    ELSE /\ batchPc' = [batchPc EXCEPT ![b] = "done"]
         /\ UNCHANGED <<batchItem, progressCallback>>

\* useEffect on mount of a progress screen; the second one after the first was left
MountBatch(b) ==
    /\ batchPc[b] = "idle"
    /\ b = 2 => (batchPc[1] # "idle" /\ batchLeft[1])
    /\ BatchLoop(b, 1)
    /\ UNCHANGED <<singleVars, storeVars, currentSessionId, batchLeft, batchRead,
                   batchNew, delivered, appended>>

\* the screen of batch b is left: the cleanup sets its isCancelledRef
LeaveBatch(b) ==
    /\ batchPc[b] # "idle"
    /\ ~batchLeft[b]
    /\ batchLeft' = [batchLeft EXCEPT ![b] = TRUE]
    /\ UNCHANGED <<singleVars, storeVars, progressCallback, currentSessionId, batchPc,
                   batchItem, batchRead, batchNew, delivered, appended>>

\* the statistics callback of setupGlobalCallbacks fires for the session batch b is
\* executing: if (this.progressCallback) this.progressCallback(progress)
StatisticsCallback(b) ==
    /\ batchPc[b] = "execute"
    /\ progressCallback # 0
    /\ delivered' = [delivered EXCEPT
                        ![progressCallback] = @ \cup {SessionOf(b, batchItem[b])}]
    /\ UNCHANGED <<singleVars, storeVars, progressCallback, currentSessionId, batchPc,
                   batchItem, batchLeft, batchRead, batchNew, appended>>

\* convertAudio: FFmpegKit.execute settles; this.currentSessionId = session.getSessionId()
ExecuteSettles(b) ==
    /\ batchPc[b] = "execute"
    /\ currentSessionId' = SessionOf(b, batchItem[b])
    /\ batchPc' = [batchPc EXCEPT ![b] = "getReturnCode"]
    /\ UNCHANGED <<singleVars, storeVars, progressCallback, batchItem, batchLeft,
                   batchRead, batchNew, delivered, appended>>

\* convertAudio: the return code is read and the result returned through the finally
\* block (progressCallback = null, currentSessionId = null); processAudioFile checks
\* isCancelledRef; the runner calls addConversion, which awaits getItem
ReturnCodeSettles(b) ==
    /\ batchPc[b] = "getReturnCode"
    /\ progressCallback' = 0
    /\ currentSessionId' = 0
    /\ \E ok \in BOOLEAN :
          LET success == ok /\ ~CancelledAfterLibrary(batchLeft[b])
          IN  batchNew' = [batchNew EXCEPT ![b] =
                  NewItem(0, SessionOf(b, batchItem[b]), success,
                          IF success THEN SessionOf(b, batchItem[b]) ELSE 0)]
    /\ batchPc' = [batchPc EXCEPT ![b] = "getItem"]
    /\ UNCHANGED <<singleVars, storeVars, batchItem, batchLeft, batchRead, delivered,
                   appended>>

\* addConversion: getHistory returns; newItem gets its id and timestamp (Date.now()),
\* is put in front, the list is cut and setItem is awaited
GetItemSettles(b) ==
    /\ batchPc[b] = "getItem"
    /\ \E readOk \in BOOLEAN :
          /\ batchRead' = [batchRead EXCEPT ![b] = GetHistory(history, readOk)]
          /\ storageFailed' = (storageFailed \/ ~readOk)
    /\ batchNew' = [batchNew EXCEPT ![b].id = nextId, ![b].timestamp = nextId]
    /\ nextId' = nextId + 1
    /\ batchPc' = [batchPc EXCEPT ![b] = "setItem"]
    /\ UNCHANGED <<singleVars, history, progressCallback, currentSessionId, batchItem,
                   batchLeft, delivered, appended>>

\* addConversion: setItem settles and the call completes; then the delay between two
\* files or the loop header
SetItemSettles(b) ==
    /\ batchPc[b] = "setItem"
    /\ \E writeOk \in BOOLEAN :
          /\ history' = (IF writeOk THEN TrimHistory(<<batchNew[b]>> \o batchRead[b])
                                    ELSE history)
          /\ storageFailed' = (storageFailed \/ ~writeOk)
    /\ appended' = appended \cup {batchNew[b].inputFile}
    /\ IF batchItem[b] < BatchFiles /\ ~batchLeft[b]
       THEN /\ batchPc' = [batchPc EXCEPT ![b] = "delay"]
            /\ UNCHANGED <<batchItem, progressCallback>>
       ELSE BatchLoop(b, batchItem[b] + 1)
    /\ UNCHANGED <<singleVars, nextId, currentSessionId, batchLeft, batchRead, batchNew,
                   delivered>>

\* the 100 ms delay between two files settles
DelaySettlesBatch(b) ==
    /\ batchPc[b] = "delay"
    /\ BatchLoop(b, batchItem[b] + 1)
    /\ UNCHANGED <<singleVars, storeVars, currentSessionId, batchLeft, batchRead,
                   batchNew, delivered, appended>>

NextConcurrent ==
    \E b \in Batches :
        \/ MountBatch(b)
        \/ LeaveBatch(b)
        \/ StatisticsCallback(b)
        \/ ExecuteSettles(b)
        \/ ReturnCodeSettles(b)
        \/ GetItemSettles(b)
        \/ SetItemSettles(b)
        \/ DelaySettlesBatch(b)

SpecConcurrent == InitConcurrent /\ [][NextConcurrent]_vars

(***************************************************************************)
(* FFmpegService.cancelConversion called while one batch runs.  The        *)
(* session of an item is executing while FFmpegKit.execute is awaited (its *)
(* statistics arrive then), and the call is in flight until convertAudio   *)
(* has returned through its finally block.                                 *)
(***************************************************************************)
\* the sessions of the convertAudio calls in flight
RunningSessions ==
    {SessionOf(b, batchItem[b]) : b \in {c \in Batches : batchPc[c] \in {"execute", "getReturnCode"}}}

\* if (this.currentSessionId) await FFmpegKit.cancel(this.currentSessionId): the session
\* handed to FFmpegKit.cancel (0: cancel is not called)
SessionToCancel(id, running) == id

\* cancelConversion up to its await, called while some conversion is in flight
CancelConversion ==
    /\ cancelCallPc = "idle"
    /\ cancelCalls < MaxCancels
    /\ RunningSessions # {}
    /\ cancelCalls' = cancelCalls + 1
    /\ LET passed == SessionToCancel(currentSessionId, RunningSessions)
       IN  /\ lastCancel' = [inFlight |-> RunningSessions, passed |-> passed]
           /\ cancelCallPc' = (IF passed # 0 THEN "cancel" ELSE "idle")
    /\ UNCHANGED <<navVars, mounted, pc, i, currentFileIndex, isCancelledRef, env,
                   genericVars, compressVars, started, expected, cancelVars, opVars,
                   selectVars, mediaVars, serviceVars, qualityVars, storeVars,
                   concurrentVars>>

\* cancelConversion after await FFmpegKit.cancel: currentSessionId = null,
\* progressCallback = null
CancelSettles ==
    /\ cancelCallPc = "cancel"
    /\ cancelCallPc' = "idle"
    /\ currentSessionId' = 0
    /\ progressCallback' = 0
    /\ UNCHANGED <<navVars, mounted, pc, i, currentFileIndex, isCancelledRef, env,
                   genericVars, compressVars, started, expected, cancelVars, opVars,
                   selectVars, mediaVars, serviceVars, qualityVars, storeVars,
                   batchPc, batchItem, batchLeft, batchRead, batchNew, delivered, appended,
                   cancelCalls, lastCancel>>

\* one progress screen converting its batch, and cancelConversion
NextCancel ==
    \/ MountBatch(1)
    \/ LeaveBatch(1)
    \/ StatisticsCallback(1)
    \/ ExecuteSettles(1)
    \/ ReturnCodeSettles(1)
    \/ GetItemSettles(1)
    \/ SetItemSettles(1)
    \/ DelaySettlesBatch(1)
    \/ CancelConversion
    \/ CancelSettles

SpecCancel == InitConcurrent /\ [][NextCancel]_vars

(***************************************************************************)
(* The image quality from the settings screen to processImageFile          *)
(***************************************************************************)
allButQualityVars == <<navVars, mounted, pc, i, currentFileIndex, isCancelledRef, env,
                       genericVars, compressVars, storeVars, started, expected, cancelVars,
                       opVars, concurrentVars, selectVars, mediaVars, serviceVars,
                       cancelCallVars>>

InitQuality ==
    /\ Init
    /\ operationType = "format"
    /\ mediaType = "image"
    /\ outputFormatSupported = TRUE
    /\ selectedFiles = 0

\* RadioButton.Group onValueChange: another output format is selected
SelectFormat ==
    /\ qualityPc = "settings"
    /\ \E hasQuality \in BOOLEAN :
          /\ formatHasQuality' = hasQuality
          /\ selectedQuality' = InitialQuality(hasQuality)
    /\ UNCHANGED <<allButQualityVars, qualityPc, quality, qualityApplied>>

\* the quality Slider (minimumValue 0, maximumValue 100, step 1), shown for a format with
\* a quality setting: setSelectedQuality(Math.round(value))
OnQualityChange ==
    /\ qualityPc = "settings"
    /\ formatHasQuality
    /\ \E value \in 0..100 : selectedQuality' = value
    /\ UNCHANGED <<allButQualityVars, qualityPc, formatHasQuality, quality, qualityApplied>>

\* handleConvert: navigate to the progress screen with quality: selectedQuality
HandleConvertWithQuality ==
    /\ qualityPc = "settings"
    /\ qualityPc' = "progress"
    /\ quality' = selectedQuality
    /\ UNCHANGED <<allButQualityVars, formatHasQuality, selectedQuality, qualityApplied>>

\* startOverallConversion: processImageFile(currentFile, outputFormatExtension,
\* quality || 75) for the next item
ProcessImageFileWithQuality ==
    /\ qualityPc = "progress"
    /\ Len(qualityApplied) < QualityItems
    /\ qualityApplied' = Append(qualityApplied, QualityOrDefault(quality))
    /\ UNCHANGED <<allButQualityVars, qualityPc, formatHasQuality, selectedQuality, quality>>

NextQuality ==
    \/ SelectFormat
    \/ OnQualityChange
    \/ HandleConvertWithQuality
    \/ ProcessImageFileWithQuality

SpecQuality == InitQuality /\ [][NextQuality]_vars

(***************************************************************************)
(* Picking and validating files on the home screen (types.ts validateFile, *)
(* validateFiles; HomeScreen.handleSelectFile).  A file name is the        *)
(* sequence of its characters.                                             *)
(***************************************************************************)
\* const FILE_SIZE_LIMITS (bytes)
FILE_SIZE_LIMITS ==
    [image |-> 50 * 1024 * 1024,
     audio |-> 100 * 1024 * 1024,
     video |-> 500 * 1024 * 1024,
     document |-> 25 * 1024 * 1024]

\* const SUPPORTED_EXTENSIONS
SUPPORTED_EXTENSIONS ==
    [image |->
        {<<".", "j", "p", "g">>, <<".", "j", "p", "e", "g">>, <<".", "p", "n", "g">>,
         <<".", "w", "e", "b", "p">>, <<".", "h", "e", "i", "c">>,
         <<".", "h", "e", "i", "f">>, <<".", "t", "i", "f", "f">>,
         <<".", "s", "v", "g">>, <<".", "b", "m", "p">>},
     audio |->
        {<<".", "m", "p", "3">>, <<".", "w", "a", "v">>, <<".", "f", "l", "a", "c">>,
         <<".", "a", "a", "c">>, <<".", "o", "g", "g">>, <<".", "m", "4", "a">>,
         <<".", "o", "p", "u", "s">>, <<".", "w", "m", "a">>},
     video |->
        {<<".", "m", "p", "4">>, <<".", "a", "v", "i">>, <<".", "m", "k", "v">>,
         <<".", "m", "o", "v">>, <<".", "w", "e", "b", "m">>, <<".", "3", "g", "p">>,
         <<".", "w", "m", "v">>, <<".", "f", "l", "v">>},
     document |->
        {<<".", "p", "d", "f">>, <<".", "d", "o", "c", "x">>, <<".", "t", "x", "t">>,
         <<".", "e", "p", "u", "b">>, <<".", "r", "t", "f">>, <<".", "m", "d">>,
         <<".", "d", "o", "c">>}]

\* String.prototype.toLowerCase on the letters that occur in the picked names
LowerCaseOf == [c \in {"A", "J", "P", "G"} |->
                  CASE c = "A" -> "a" [] c = "J" -> "j" [] c = "P" -> "p" [] c = "G" -> "g"]
ToLowerCase(s) ==
    [k \in 1..Len(s) |-> IF s[k] \in DOMAIN LowerCaseOf THEN LowerCaseOf[s[k]] ELSE s[k]]

\* String.prototype.lastIndexOf, 1-based; 0 when the character does not occur
LastIndexOf(s, c) ==
    LET at == {k \in 1..Len(s) : s[k] = c}
    IN  IF at = {} THEN 0 ELSE CHOOSE k \in at : \A m \in at : m <= k

\* getFileExtension
GetFileExtension(filename) ==
    LET lastDot == LastIndexOf(filename, ".")
    IN  IF lastDot = 0 THEN <<>>
        ELSE ToLowerCase(SubSeq(filename, lastDot, Len(filename)))

\* validateFileExtension
ValidateFileExtension(filename, type) ==
    GetFileExtension(filename) \in SUPPORTED_EXTENSIONS[type]

\* the size check accepting only sizes below the limit
ValidateFileSize_Strict(size, type) == ~(size >= FILE_SIZE_LIMITS[type])

\* validateFileSize: invalid when size > limit
ValidateFileSize(size, type) == ~(size > FILE_SIZE_LIMITS[type])

\* getFileInfo: the size reported for a file, 0 when it does not exist
GetFileInfoSize(file) == IF file.exists THEN file.size ELSE 0

\* validateFile: the first failing check decides the error, "none" means isValid
ValidateFile(file, type) ==
    IF ~ValidateFileExtension(file.name, type) THEN "UNSUPPORTED_FORMAT"
    ELSE IF ~file.exists THEN "FILE_NOT_FOUND"
    ELSE IF ~ValidateFileSize(GetFileInfoSize(file), type) THEN "FILE_TOO_LARGE"
    ELSE "none"

\* the names the pickers return, each with the media types whose extension list holds
\* its extension
PickedNames ==
    {[name |-> <<"a", ".", "j", "p", "g">>, supportedFor |-> {"image"}],
     [name |-> <<"A", ".", "J", "P", "G">>, supportedFor |-> {"image"}],
     [name |-> <<"a", ".", "t", "a", "r", ".", "m", "p", "3">>, supportedFor |-> {"audio"}],
     [name |-> <<"m", "p", "4">>, supportedFor |-> {}],
     [name |-> <<"a", ".", "m", "p", "4">>, supportedFor |-> {"video"}],
     [name |-> <<"a", ".", "p", "n", "g", ".", "e", "x", "e">>, supportedFor |-> {}]}

\* the files the picker can return for a media type: a name, and what the file system
\* answers for its uri (missing, empty, exactly at the size limit, one byte above it)
PickedFiles(type) ==
    {[name |-> n.name, supportedFor |-> n.supportedFor, exists |-> fs[1], size |-> fs[2]] :
        n \in PickedNames,
        fs \in {<<FALSE, 0>>, <<TRUE, 0>>, <<TRUE, FILE_SIZE_LIMITS[type]>>,
                <<TRUE, FILE_SIZE_LIMITS[type] + 1>>}}

SeqsUpTo(S, n) == UNION {[1..k -> S] : k \in 0..n}

homeVars == <<screen, operationType, mediaType, files, outputFormatSupported, alertShown>>
afterHomeVars == <<mounted, pc, i, currentFileIndex, isCancelledRef, env, genericVars,
                   compressVars, storeVars, started, expected, cancelVars, opVars,
                   concurrentVars, otherVars>>

InitValidate ==
    /\ Init
    /\ selectedFiles = 0
    /\ mediaType \in {"image", "audio", "video"}

\* handleSelectFile up to the call of validateFiles: the picker returns rawFiles.
\* Explored: the first pick, and further picks after a pick that added files, as long
\* as the selection stays within MaxPicked files.
HandleSelectFile ==
    /\ screen = "home"
    /\ selectPc = "idle"
    /\ rawFiles = <<>> \/ Len(validFiles) > 0
    /\ \E raw \in SeqsUpTo(PickedFiles(mediaType), MaxPicked - Len(selectedList)) :
          /\ rawFiles' = raw
          /\ selectPc' = (IF raw = <<>> THEN "idle" ELSE "validating")
    /\ validateIndex' = 0
    /\ validFiles' = <<>>
    /\ invalidFiles' = <<>>
    /\ prevSelected' = selectedList
    /\ selectAlert' = "none"
    /\ UNCHANGED <<homeVars, selectedFiles, selectedList, afterHomeVars>>

\* validateFiles: the awaited validateFile of the next file settles
ValidateFileSettles ==
    /\ selectPc = "validating"
    /\ validateIndex < Len(rawFiles)
    /\ LET file == rawFiles[validateIndex + 1]
           error == ValidateFile(file, mediaType)
       IN  IF error = "none"
           THEN /\ validFiles' = Append(validFiles, file)
                /\ UNCHANGED invalidFiles
           ELSE /\ invalidFiles' = Append(invalidFiles, [file |-> file, error |-> error])
                /\ UNCHANGED validFiles
    /\ validateIndex' = validateIndex + 1
    /\ UNCHANGED <<homeVars, selectedFiles, selectedList, afterHomeVars, selectPc,
                   rawFiles, prevSelected, selectAlert>>

\* handleSelectFile after validateFiles returned: the alerts, and
\* setSelectedFiles(prevFiles => [...prevFiles, ...validFiles])
FinishSelectFile ==
    /\ selectPc = "validating"
    /\ validateIndex = Len(rawFiles)
    /\ selectedList' = (IF Len(validFiles) > 0 THEN selectedList \o validFiles
                                               ELSE selectedList)
    /\ selectedFiles' = Len(selectedList')
    /\ selectAlert' = (IF Len(validFiles) = 0 /\ Len(invalidFiles) > 0
                       THEN "No Valid Files"
                       ELSE IF Len(invalidFiles) > 0 THEN "File Validation Error"
                       ELSE "none")
    /\ selectPc' = "idle"
    /\ UNCHANGED <<homeVars, afterHomeVars, rawFiles, validateIndex, validFiles,
                   invalidFiles, prevSelected>>

NextValidate ==
    \/ HandleSelectFile
    \/ ValidateFileSettles
    \/ FinishSelectFile

SpecValidate == InitValidate /\ [][NextValidate]_vars

(***************************************************************************)
(* AudioCompressionService: getInstance and the lazy initializeFFmpeg,     *)
(* called by the runners of two audio compression screens.  Leaving such a *)
(* screen does not stop its runner, so the compressAudio calls of two      *)
(* screens can overlap; each runner makes its own calls one after another. *)
(***************************************************************************)
allButServiceVars == <<navVars, mounted, pc, i, currentFileIndex, isCancelledRef, env,
                       genericVars, compressVars, storeVars, started, expected, cancelVars,
                       opVars, concurrentVars, selectVars, mediaVars, cancelCallVars,
                       qualityVars>>

InitService ==
    /\ Init
    /\ operationType = "compress"
    /\ mediaType = "audio"
    /\ selectedFiles = 0

\* initializeFFmpeg up to its first await: if (initialized) return; else setLogLevel is
\* called and awaited
InitializeFFmpeg(b) ==
    IF initialized
    THEN /\ callPc' = [callPc EXCEPT ![b] = "execute"]
         /\ UNCHANGED setLogLevelCalls
    ELSE /\ callPc' = [callPc EXCEPT ![b] = "setLogLevel"]
         /\ setLogLevelCalls' = setLogLevelCalls + 1

\* AudioCompressionService.getInstance().compressAudio(...) of a runner, up to the first
\* await of compressAudio
CallCompressAudio(b) ==
    /\ callPc[b] = "idle"
    /\ callCount[b] < MaxCalls
    /\ callCount' = [callCount EXCEPT ![b] = @ + 1]
    /\ IF instance = 0
       THEN /\ instance' = instancesCreated + 1
            /\ instancesCreated' = instancesCreated + 1
            /\ callInstance' = [callInstance EXCEPT ![b] = instancesCreated + 1]
       ELSE /\ callInstance' = [callInstance EXCEPT ![b] = instance]
            /\ UNCHANGED <<instance, instancesCreated>>
    /\ InitializeFFmpeg(b)
    /\ UNCHANGED <<allButServiceVars, initialized, enableLogsCalls, initFailed>>

\* await FFmpegKitConfig.setLogLevel(30) settles: enableLogs is called and awaited, or the
\* error is rethrown and compressAudio returns a failure
SetLogLevelSettles(b) ==
    /\ callPc[b] = "setLogLevel"
    /\ \E ok \in BOOLEAN :
          IF ok
          THEN /\ enableLogsCalls' = enableLogsCalls + 1
               /\ callPc' = [callPc EXCEPT ![b] = "enableLogs"]
               /\ UNCHANGED initFailed
          ELSE /\ initFailed' = initFailed + 1
               /\ callPc' = [callPc EXCEPT ![b] = "idle"]
               /\ UNCHANGED enableLogsCalls
    /\ UNCHANGED <<allButServiceVars, instance, instancesCreated, initialized,
                   callInstance, callCount, setLogLevelCalls>>

\* await FFmpegKitConfig.enableLogs() settles: initialized = true, and compressAudio goes
\* on to its FFmpeg execution; or the error is rethrown
EnableLogsSettles(b) ==
    /\ callPc[b] = "enableLogs"
    /\ \E ok \in BOOLEAN :
          IF ok
          THEN /\ initialized' = TRUE
               /\ callPc' = [callPc EXCEPT ![b] = "execute"]
               /\ UNCHANGED initFailed
          ELSE /\ initFailed' = initFailed + 1
               /\ callPc' = [callPc EXCEPT ![b] = "idle"]
               /\ UNCHANGED initialized
    /\ UNCHANGED <<allButServiceVars, instance, instancesCreated,
                   callInstance, callCount, setLogLevelCalls, enableLogsCalls>>

\* the rest of compressAudio settles and the call returns its result
CompressAudioReturns(b) ==
    /\ callPc[b] = "execute"
    /\ callPc' = [callPc EXCEPT ![b] = "idle"]
    /\ UNCHANGED <<allButServiceVars, instance, instancesCreated, initialized,
                   callInstance, callCount, setLogLevelCalls, enableLogsCalls, initFailed>>

NextService ==
    \E b \in Batches :
        \/ CallCompressAudio(b)
        \/ SetLogLevelSettles(b)
        \/ EnableLogsSettles(b)
        \/ CompressAudioReturns(b)

SpecService == InitService /\ [][NextService]_vars

(***************************************************************************)
(* Properties                                                              *)
(***************************************************************************)
Entries(h) == {h[k] : k \in 1..Len(h)}
EntriesOf(h, item) == {k \in 1..Len(h) : h[k].inputFile = item}

\* the overall progress fraction the progress screen shows
ShownProgress == IF Runner = "generic" THEN overallProgress ELSE totalProgress

\* the batch state shown is terminal
Terminal == IF Runner = "generic" THEN AllDone ELSE isCompleted

\* the runner is suspended inside the processor of item i + 1
ProcessorAwaits == {"getInfo", "manipulate", "requestPermissions", "createAsset",
                    "ffmpeg", "unsupportedDelay", "notImplementedDelay",
                    "compressImage", "compressAudio"}

\* the awaits of a processor that precede its check of isCancelledRef
BeforeCancelCheck == {"getInfo", "manipulate", "ffmpeg"}

\* C1: a batch of n items that ran to its end without cancellation and without a storage
\* failure has appended exactly n history entries, one per item, whatever the outcomes.
C1_OneEntryPerItem ==
    (pc = "done" /\ files > 0 /\ cancelAt = 0 /\ ~isCancelledRef /\ ~storageFailed)
        => /\ Len(history) = files
           /\ \A k \in 1..files : Cardinality(EntriesOf(history, k)) = 1

\* C2: in the generic runner, once cancellation is requested during the iteration of
\* item k, no item after k is started, gets a result or gets a history entry, and when
\* the runner has stopped items 1..k each have a recorded result.
C2_CancelStopsLaterItems ==
    (Runner = "generic" /\ cancelAt > 0)
        => /\ \A n \in 1..Len(started) : started[n] <= cancelAt
           /\ \A n \in 1..Len(processedFiles) : processedFiles[n].item <= cancelAt
           /\ \A e \in Entries(history) : e.inputFile <= cancelAt
           /\ pc = "done" =>
                 /\ Len(processedFiles) = cancelAt
                 /\ \A k \in 1..cancelAt : processedFiles[k].item = k

\* C2 witness: cancellation came while item 2 of 3 was inside its processor, the runner
\* has stopped, and exactly items 1 and 2 have results.
C2_Witness ==
    /\ Runner = "generic"
    /\ files = 3
    /\ cancelAt = 2
    /\ cancelPc \in ProcessorAwaits
    /\ pc = "done"
    /\ Len(processedFiles) = 2
    /\ \E e \in Entries(history) : e.inputFile = 2

\* C3 as stated: every recorded result and history entry reports the outcome the
\* processor would have produced had nobody cancelled.
C3_OutcomeUnchanged ==
    Runner = "generic" =>
        /\ \A n \in 1..Len(results) :
              /\ results[n].success = expected[results[n].item]
              /\ results[n].success => results[n].outputPath = results[n].item
        /\ \A e \in Entries(history) : e.success = expected[e.inputFile]

\* C3 amended: the item in flight always runs to its end and is recorded; its recorded
\* outcome is the one the processor would have produced without the cancellation, except
\* that a request arriving before the processor's check after the library call makes the
\* result a failure without output location ("Cancelled by user" when the item would
\* have succeeded).  The history entry repeats the recorded result.
C3_CancelBeforeCheckFails ==
    Runner = "generic" =>
        /\ \A n \in 1..Len(results) :
              LET r == results[n]
              IN  /\ r.item = n
                  /\ IF cancelAt = r.item /\ cancelPc \in BeforeCancelCheck
                     THEN /\ ~r.success
                          /\ r.outputPath = 0
                          /\ expected[r.item] => r.error = "Cancelled by user"
                     ELSE /\ r.success = expected[r.item]
                          /\ r.outputPath = (IF r.success THEN r.item ELSE 0)
        /\ \A e \in Entries(history) :
              /\ e.inputFile <= Len(results)
              /\ e.success = results[e.inputFile].success
              /\ e.outputPath = results[e.inputFile].outputPath
        /\ (pc = "done" /\ cancelAt > 0) => Len(results) >= cancelAt

\* C3 witness: item 1 would have succeeded, cancellation was requested while its library
\* call was awaited, and the item is recorded, in results and history, as failed.
C3_Witness ==
    /\ Runner = "generic"
    /\ cancelAt = 1
    /\ cancelPc \in {"manipulate", "ffmpeg"}
    /\ expected[1]
    /\ Len(results) >= 1
    /\ ~results[1].success
    /\ results[1].error = "Cancelled by user"
    /\ \E e \in Entries(history) : e.inputFile = 1 /\ ~e.success

\* C4: the persisted history never holds more than MAX_HISTORY_ITEMS entries.
C4_HistoryCapped == Len(history) <= MAX_HISTORY_ITEMS

\* C4 witness: an addConversion on a full store has left it full.
C4_Witness ==
    /\ lastOp = "add"
    /\ opCount >= 2
    /\ Len(history) = MAX_HISTORY_ITEMS
    /\ history[1].id > MAX_HISTORY_ITEMS + 1

\* the stored list is in most-recent-first insertion order
MostRecentFirst(h) == \A k \in 1..(Len(h) - 1) : h[k].id > h[k + 1].id

\* C5: the stored list is always in most-recent-first insertion order, and an
\* addConversion on a full store either stores nothing or drops exactly the entry
\* inserted earliest, putting the new entry in front of the others in their order.
C5_EvictsOldestOnly ==
    /\ [](MostRecentFirst(history))
    /\ [][(lastOp' = "add" /\ opCount' = opCount + 1 /\ Len(history) = MAX_HISTORY_ITEMS
             /\ history' # history)
          => /\ Len(history') = MAX_HISTORY_ITEMS
             /\ history'[1].id = nextId
             /\ SubSeq(history', 2, MAX_HISTORY_ITEMS)
                    = SubSeq(history, 1, MAX_HISTORY_ITEMS - 1)]_vars

\* C6: the overall progress fraction shown never decreases.
C6_ProgressMonotone == [][FractionLeq(ShownProgress, ShownProgress')]_vars

\* C6 witness: in the audio runner the timer of the second item has ticked after the
\* first item failed.
C6_Witness ==
    /\ Runner = "audioCompression"
    /\ pc = "compressAudio"
    /\ i = 1
    /\ currentProgress > 0
    /\ fileProgress[1].status = "error"
    /\ totalProgress = InterpolatedProgress(1, currentProgress, files)

\* C7 as stated: the progress fraction shown is 1.0 exactly in the terminal states.
C7_OneIffTerminal == FractionIsOne(ShownProgress) <=> Terminal

\* every item of the batch has an outcome
AllItemsProcessed ==
    IF Runner = "generic" THEN Len(results) = files
    ELSE /\ Len(fileProgress) = files
         /\ \A k \in 1..files : fileProgress[k].status \in {"completed", "error"}

\* C7 amended: the fraction is 1.0 in every terminal state other than cancelled, and it
\* is 1.0 only once every item of the batch has an outcome.
C7_OneWhenFinished ==
    /\ (Runner = "generic" /\ conversionState \in {"completed", "error"})
          => FractionIsOne(overallProgress)
    /\ (Runner # "generic" /\ isCompleted) => FractionIsOne(totalProgress)
    /\ FractionIsOne(ShownProgress) => (files > 0 /\ AllItemsProcessed)

\* C7 witness: every item of a generic batch failed, the state shown is error and the
\* fraction is 1.0.
C7_Witness ==
    /\ Runner = "generic"
    /\ files = 2
    /\ conversionState = "error"
    /\ \A n \in 1..Len(results) : ~results[n].success
    /\ FractionIsOne(overallProgress)

\* C8: at most one item has status processing.
C8_AtMostOneProcessing ==
    Cardinality({k \in 1..Len(fileProgress) : fileProgress[k].status = "processing"}) <= 1

\* C8 witness: the second item is processing after the first one was settled.
C8_Witness ==
    /\ Runner \in {"imageCompression", "audioCompression"}
    /\ i = 1
    /\ fileProgress[1].status \in {"completed", "error"}
    /\ fileProgress[2].status = "processing"

\* C9: processors are invoked in queue order, and while the processor of an item is in
\* flight every earlier item has its result recorded and (storage working) its history
\* entry stored.
C9_OneAtATimeInOrder ==
    /\ \A n \in 1..Len(started) : started[n] = n
    /\ (pc \in ProcessorAwaits) =>
          /\ Len(started) = i + 1
          /\ \A k \in 1..i :
                /\ IF Runner = "generic"
                   THEN Len(results) >= k /\ results[k].item = k
                   ELSE fileProgress[k].status \in {"completed", "error"}
                /\ ~storageFailed => EntriesOf(history, k) # {}

Classify(s, n) ==
    IF s = n THEN "completed"
    ELSE IF s > 0 THEN "partial-failure"
    ELSE "all-failed"

\* the number of items whose processor returned a success
SuccessfulItems == Cardinality({k \in 1..files : expected[k]})

\* the outcome the progress screen shows: the generic screen through conversionState and
\* the status message, the compression screens through "k of n files compressed"
ShownOutcome ==
    IF Runner = "generic"
    THEN CASE conversionState = "completed"
                 /\ currentStatusMessage = "All files converted successfully!" -> "completed"
           [] conversionState = "error"
                 /\ currentStatusMessage = "Some converted, some failed." -> "partial-failure"
           [] conversionState = "error"
                 /\ currentStatusMessage = "All conversions failed." -> "all-failed"
           [] OTHER -> "none"
    ELSE IF isCompleted
         THEN Classify(Cardinality({k \in 1..Len(fileProgress) :
                                       fileProgress[k].status = "completed"}), files)
         ELSE "none"

\* C11: when a batch that was not cancelled has finished, the outcome shown is the one
\* fixed by the item results: completed iff every item succeeded, partial-failure iff
\* some succeeded and some failed, all-failed iff none succeeded.
C11_OutcomeByResults ==
    (pc = "done" /\ files > 0 /\ (Runner = "generic" => ~isCancelledRef))
        => ShownOutcome = Classify(SuccessfulItems, files)

\* C11 witness: of three images the second had an inaccessible source; the batch ended
\* as a partial failure with two successes.
C11_Witness ==
    /\ Runner = "generic"
    /\ mediaType = "image"
    /\ files = 3
    /\ pc = "done"
    /\ ~isCancelledRef
    /\ results[1].success /\ results[3].success
    /\ results[2].error = "File no longer exists or is not accessible"
    /\ ShownOutcome = "partial-failure"

\* C12: a batch that was not cancelled ends only after the processor of every item was
\* invoked and every item has an outcome, whichever items failed or threw.
C12_FailureKeepsLoopGoing ==
    (pc = "done" /\ (Runner = "generic" => ~isCancelledRef))
        => /\ started = [k \in 1..files |-> k]
           /\ AllItemsProcessed

\* C12 witness: the first two of three items failed (the first through an exception
\* thrown by the library) and the third was still processed, with success.
C12_Witness ==
    /\ pc = "done"
    /\ files = 3
    /\ ~expected[1] /\ ~expected[2] /\ expected[3]
    /\ \/ /\ Runner = "generic"
          /\ ~isCancelledRef
          /\ results[1].error \in {"Operation failed", "Conversion failed"}
          /\ results[3].success
       \/ /\ Runner = "imageCompression"
          /\ fileProgress[1].status = "error"
          /\ fileProgress[3].status = "completed"

\* the awaits at which a runner waits for addConversion
AddConversionAwaits == {"addConversion", "addConversionCompleted", "addConversionFailed",
                        "addConversionAudio"}

\* C13: when the addConversion awaited for item i settles, whether the storage worked or
\* failed, the results and item states recorded so far stay as they were and the runner
\* goes on to item i+1 if there is one; and a batch that met a storage failure still
\* ends with every item processed and with the outcome fixed by the item results.
C13_HistoryFailureSwallowed ==
    /\ [][(pc \in AddConversionAwaits)
            => /\ results' = results
               /\ processedFiles' = processedFiles
               /\ Runner # "generic" => fileProgress'[i + 1] = fileProgress[i + 1]
               /\ (i + 1 < files /\ ~isCancelledRef')
                     => (pc' = "delay" \/ started' = Append(started, i + 2))]_<<pc, results, processedFiles, fileProgress, started>>
    /\ []((storageFailed /\ pc = "done" /\ (Runner = "generic" => ~isCancelledRef))
            => /\ AllItemsProcessed
               /\ ShownOutcome = Classify(SuccessfulItems, files))

\* C13 witness: every item of a two-item batch succeeded, the store took no entry for
\* at least one of them because its write failed, and the batch ended as completed.
C13_Witness ==
    /\ files = 2
    /\ pc = "done"
    /\ storageFailed
    /\ expected[1] /\ expected[2]
    /\ Len(history) < 2
    /\ Runner = "generic" => ~isCancelledRef
    /\ ShownOutcome = "completed"

\* C14: no item's processor is invoked twice, and a terminal batch state (completed,
\* error or cancelled on the generic screen, isCompleted on the compression screens)
\* is never replaced by another state.
C14_NoRetryTerminalFinal ==
    /\ [](\A m, n \in 1..Len(started) : started[m] = started[n] => m = n)
    /\ [][(Runner = "generic" /\ AllDone) => conversionState' = conversionState]_vars
    /\ [][isCompleted => isCompleted']_vars

\* C14 witness: the generic batch was cancelled while its last item was in flight; the
\* runner has recorded every item, one of them failed, and the state is still cancelled.
C14_Witness ==
    /\ Runner = "generic"
    /\ files = 2
    /\ cancelAt = 2
    /\ pc = "done"
    /\ Len(results) = 2
    /\ ~results[1].success
    /\ started = <<1, 2>>
    /\ conversionState = "cancelled"

\* batch b is inside FFmpegService.convertAudio
InConvertAudio(b) == batchPc[b] \in {"execute", "getReturnCode"}

\* C15: two batches alive at once do not touch each other's state: while a batch is
\* inside convertAudio its progress callback stays registered, once its session has
\* been created the session id kept is its own, and its callback receives the
\* statistics of its own sessions only.
C15_NoSharedState ==
    \A b \in Batches :
        /\ InConvertAudio(b) => progressCallback = b
        /\ batchPc[b] = "getReturnCode"
              => currentSessionId = SessionOf(b, batchItem[b])
        /\ \A s \in delivered[b] : \E item \in 1..BatchFiles : s = SessionOf(b, item)

\* no addConversion call is in flight
NoAddConversionInFlight == \A b \in Batches : batchPc[b] \notin {"getItem", "setItem"}

\* C16: whatever the interleaving of the addConversion calls of two batches, the stored
\* list is most recent first and, once no call is in flight and the storage never
\* failed, holds an entry for every call that has completed.
C16_AppendsIndependent ==
    /\ MostRecentFirst(history)
    /\ (NoAddConversionInFlight /\ ~storageFailed)
          => \A f \in appended : \E e \in Entries(history) : e.inputFile = f

\* what C17 calls a valid file: supported extension, existing source, size within the
\* limit of the media type
IsAcceptable(file) ==
    /\ mediaType \in file.supportedFor
    /\ file.exists
    /\ file.size <= FILE_SIZE_LIMITS[mediaType]

IsNotAcceptable(file) == ~IsAcceptable(file)

\* C17: of the files validated so far, validFiles holds exactly the acceptable ones and
\* invalidFiles exactly the others, both in input order; nothing is added to the
\* selection while validation runs, and when handleSelectFile has finished the
\* selection is the previous selection followed by validFiles.
C17_ValidateFilesPartitions ==
    LET handled == SubSeq(rawFiles, 1, validateIndex)
    IN  /\ validFiles = SelectSeq(handled, IsAcceptable)
        /\ [k \in 1..Len(invalidFiles) |-> invalidFiles[k].file]
              = SelectSeq(handled, IsNotAcceptable)
        /\ \A k \in 1..Len(invalidFiles) : invalidFiles[k].error # "none"
        /\ selectPc = "validating" => selectedList = prevSelected
        /\ selectPc = "idle"
              => /\ validateIndex = Len(rawFiles)
                 /\ selectedList = prevSelected \o validFiles
                 /\ selectedFiles = Len(selectedList)

\* C17 witness: of two picked files the first is exactly at the size limit and was
\* added to the selection, the second is one byte larger and was rejected.
C17_Witness ==
    /\ selectPc = "idle"
    /\ Len(rawFiles) = 2
    /\ rawFiles[1].size = FILE_SIZE_LIMITS[mediaType]
    /\ selectedList = <<rawFiles[1]>>
    /\ Len(invalidFiles) = 1
    /\ invalidFiles[1].file = rawFiles[2]
    /\ invalidFiles[1].error = "FILE_TOO_LARGE"

\* C18: in the compression runners, while the loop is at index i (item i + 1), every
\* item before it is completed or error and every item after it is pending; after the
\* loop every item is completed or error.
C18_SettledBelowPendingAbove ==
    (Runner \in {"imageCompression", "audioCompression"} /\ pc # "idle")
        => /\ Len(fileProgress) = files
           /\ \A k \in 1..files :
                 /\ k <= i => fileProgress[k].status \in {"completed", "error"}
                 /\ k > i + 1 => fileProgress[k].status = "pending"

\* C18 witness: the loop is at the second of three items; the first failed, the third
\* is still pending.
C18_Witness ==
    /\ Runner \in {"imageCompression", "audioCompression"}
    /\ files = 3
    /\ i = 1
    /\ pc \in ProcessorAwaits
    /\ fileProgress[1].status = "error"
    /\ fileProgress[3].status = "pending"

\* C19: a progress record carries a result only with status completed and an error
\* message only with status error.
C19_ResultAndErrorMatchStatus ==
    \A k \in 1..Len(fileProgress) :
        /\ fileProgress[k].result => fileProgress[k].status = "completed"
        /\ fileProgress[k].error # "none" => fileProgress[k].status = "error"

\* C19 witness: one item completed with its result, one failed with its message, and
\* the one being processed carries neither.
C19_Witness ==
    /\ Len(fileProgress) = 3
    /\ fileProgress[1].status = "completed" /\ fileProgress[1].result
    /\ fileProgress[2].status = "error" /\ fileProgress[2].error # "none"
    /\ fileProgress[3].status = "processing"
    /\ ~fileProgress[3].result /\ fileProgress[3].error = "none"

\* C20: every result a processor hands to its runner is either a success with an output
\* location and no error, or a failure with a non-empty error message and no output
\* location; in the compression runners a completed item carries its result and a
\* failed item a non-empty error message.
C20_TwoOutcomeShapes ==
    /\ \A n \in 1..Len(results) :
          LET r == results[n]
          IN  \/ r.success /\ r.outputPath # 0 /\ r.error = "none"
              \/ ~r.success /\ r.outputPath = 0 /\ r.error \notin {"none", ""}
    /\ \A k \in 1..Len(fileProgress) :
          /\ fileProgress[k].status = "completed" => fileProgress[k].result
          /\ fileProgress[k].status = "error" => fileProgress[k].error \notin {"none", ""}

\* C20 witness: three images failed for three different reasons (source gone, an
\* exception without message thrown by the library, cancellation inside the item) and
\* each is recorded as a failure with a message.
C20_Witness ==
    /\ Runner = "generic"
    /\ mediaType = "image"
    /\ Len(results) = 3
    /\ results[1].error = "File no longer exists or is not accessible"
    /\ results[2].error = "Unknown error occurred during image processing."
    /\ results[3].error = "Cancelled by user"
    /\ \A n \in 1..3 : ~results[n].success

(***************************************************************************)
(* C21: a denied media-library permission does not block a batch and does  *)
(* not make its items fail: an item whose permission request was denied is *)
(* still processed and recorded as a success, with its output under the    *)
(* app's own directory and not in the gallery, and a batch nobody          *)
(* cancelled handles every item.                                           *)
(***************************************************************************)
C21_DenialKeepsItemsSucceeding ==
    /\ \A k \in 1..Len(results) :
          results[k].item \in permissionDenied => results[k].success
    /\ \A k \in permissionDenied :
          /\ k \in savedToAppDirectory
          /\ k \notin savedToGallery
          /\ Runner # "generic" => fileProgress[k].status = "completed"
    /\ (pc = "done" /\ ~isCancelledRef /\ Runner = "generic") => Len(results) = files

\* the batch has ended: its state is completed, error or cancelled, or its screen was
\* left and the cleanup set the cancellation flag
BatchTerminal ==
    IF Runner = "generic" THEN AllDone \/ (isCancelledRef /\ ~mounted) ELSE isCompleted

(***************************************************************************)
(* C22: when every processor call, history write and timeout settles, a    *)
(* batch whose progress screen was opened eventually has its runner        *)
(* returned, invoking no further processor, with the state shown being     *)
(* completed, error or cancelled.                                          *)
(***************************************************************************)
C22_ShownStateTerminal ==
    (screen = "progress") ~> (pc = "done" /\ Terminal)

\* C22 amended: the runner eventually returns and invokes no further processor; the
\* state is then completed, error or cancelled, except that a generic batch whose screen
\* was left keeps the state it had and only has its cancellation flag set.
C22_BatchTerminates ==
    /\ (screen = "progress") ~> (pc = "done" /\ BatchTerminal)
    /\ [][pc = "done" => started' = started]_vars

\* C22 witness: a batch of MaxFiles items has ended after invoking the processor for each.
C22_Witness ==
    /\ files = MaxFiles
    /\ pc = "done"
    /\ BatchTerminal
    /\ Len(started) = MaxFiles

(***************************************************************************)
(* C23: getInstance always returns the same object, and the steps of the   *)
(* FFmpeg initialisation are run at most once (once more for every         *)
(* initialisation that threw), whatever the interleaving of the            *)
(* compressAudio calls.                                                    *)
(***************************************************************************)
C23_InitialisedOnce ==
    /\ instancesCreated <= 1
    /\ \A b \in Batches : callInstance[b] \in {0, instance}
    /\ setLogLevelCalls <= 1 + initFailed
    /\ enableLogsCalls <= 1 + initFailed

\* every entry of h other than those with the given id, in the order of h
Without(h, id) == SelectSeq(h, LAMBDA item : item.id # id)

\* h2 is h1 with one new entry put in front and the entries beyond the cap dropped
AppendedWithCap(h1, h2) ==
    /\ Len(h2) = Min(Len(h1) + 1, MAX_HISTORY_ITEMS)
    /\ \A k \in 2..Len(h2) : h2[k] = h1[k - 1]

(***************************************************************************)
(* C24: a history operation whose write took effect changes the store as   *)
(* follows and in no other way: removeConversion(id) removes exactly the   *)
(* entries whose id is id, every other entry keeping its fields and its    *)
(* place in the order; clearHistory leaves the store empty; addConversion  *)
(* puts its entry in front and drops only what the cap evicts.  An         *)
(* operation whose write failed leaves the store as it was.                *)
(***************************************************************************)
C24_EntriesRemovedOnlyByUser ==
    [][IF ~lastWriteOk' THEN history' = history
       ELSE CASE lastOp' = "remove" -> history' = Without(history, lastId')
              [] lastOp' = "clear" -> history' = <<>>
              [] lastOp' = "add" -> AppendedWithCap(history, history')
              [] OTHER -> history' = history]_<<history, opCount>>

(***************************************************************************)
(* C25: a cancelConversion call made while a convertAudio call is in       *)
(* flight hands the session of a call in flight to FFmpegKit.cancel.       *)
(***************************************************************************)
C25_CancelsRunningSession ==
    lastCancel.inFlight # {} => lastCancel.passed \in lastCancel.inFlight

C27_CancelStopsCompression ==
    (Runner \in {"imageCompression", "audioCompression"} /\ cancelAt # 0)
        => /\ \A n \in 1..Len(started) : started[n] <= cancelAt
           /\ \A n \in 1..Len(history) : history[n].inputFile <= cancelAt

(***************************************************************************)
(* C28: in the generic runner every history entry belongs to an item whose *)
(* result is already recorded and carries that result's success flag and   *)
(* output path; with the storage working, every item before the one        *)
(* started last has its entry, and when the runner has returned the k-th   *)
(* most recent entry is the one of the k-th last processed item.           *)
(***************************************************************************)
C28_EntryFollowsResult ==
    Runner = "generic" =>
        /\ \A n \in 1..Len(history) :
              LET e == history[n]
              IN  /\ e.inputFile \in 1..Len(results)
                  /\ e.success = results[e.inputFile].success
                  /\ e.outputPath = results[e.inputFile].outputPath
        /\ ~storageFailed =>
              /\ \A k \in 1..(Len(started) - 1) : EntriesOf(history, k) # {}
              /\ pc = "done" =>
                    /\ Len(history) = Len(results)
                    /\ \A k \in 1..Len(history) :
                          history[k].inputFile = results[Len(results) + 1 - k].item

\* C28 witness: three images were converted, the second failed; the history holds the
\* three entries, newest first, each with the outcome of its item.
C28_Witness ==
    /\ Runner = "generic"
    /\ mediaType = "image"
    /\ files = 3
    /\ pc = "done"
    /\ ~storageFailed
    /\ Len(history) = 3
    /\ ~results[2].success
    /\ history[2].inputFile = 2 /\ ~history[2].success /\ history[2].outputPath = 0
    /\ history[1].inputFile = 3 /\ history[1].success /\ history[1].outputPath = 3

(***************************************************************************)
(* C29: every item of an image batch is processed with the quality chosen  *)
(* on the settings screen, whatever value from 0 to 100 was chosen; 75 is  *)
(* used only when no quality was chosen.                                   *)
(***************************************************************************)
C29_ChosenQualityApplied ==
    qualityPc = "progress" =>
        /\ quality = selectedQuality
        /\ \A n \in 1..Len(qualityApplied) :
              qualityApplied[n] = (IF selectedQuality = Undefined THEN 75 ELSE selectedQuality)

\* the sessions FFmpegKit.execute creates for the items of batch b
SessionsOf(b) == {SessionOf(b, item) : item \in 1..BatchFiles}

(***************************************************************************)
(* C30: for any interleaving of two overlapping convertAudio calls, the    *)
(* callback a call registered receives the statistics of that call's       *)
(* sessions only, no step of the other call replaces or clears it while    *)
(* the call is in flight, and once every call has returned                 *)
(* progressCallback and currentSessionId are both null.                    *)
(***************************************************************************)
C30_CallbackKeptUntilReturn ==
    [][/\ \A b \in Batches : delivered'[b] \subseteq SessionsOf(b)
       /\ \A b \in Batches :
             (InConvertAudio(b) /\ progressCallback = b
                 /\ batchPc'[b] = batchPc[b] /\ batchItem'[b] = batchItem[b])
                => progressCallback' = b
       /\ (\A b \in Batches : batchPc'[b] \notin {"execute", "getReturnCode"})
             => (progressCallback' = 0 /\ currentSessionId' = 0)]_vars
====
